---- MODULE Spec2Model ----
(***************************************************************************)
(* Model of the mlab runner service (src/runner/__main__.py and            *)
(* src/runner/cog.py): the persisted worker count and its admission check, *)
(* the job directories, the handlers of the Runner servicer, the poll loop *)
(* that streams a child process's output, and the result handling that     *)
(* follows it.                                                             *)
(*                                                                         *)
(* Three specifications share the variables:                               *)
(*   Spec        the servicer: every handler of Runner as written, one     *)
(*               action per handler (no handler suspends between its       *)
(*               statements: cog.setup and cog.prepare hold no await), and *)
(*               serve() constructing a new Runner;                        *)
(*   SpecTask    run_task lines 109-174 over a launched child process: the *)
(*               poll loop, fetch_results and the result handling;         *)
(*   SpecResult  the result handling of run_task lines 115-174 applied to  *)
(*               the (status, document) pairs its unpacking expects.       *)
(* The write of worker_count.pkl is taken as one step.                     *)
(***************************************************************************)
EXTENDS Integers, Sequences, FiniteSets, TLC

VARIABLES
    worker_count,   \* worker_count.pkl: <<>> when the file is absent, <<n>> when it holds n
    fs,             \* per job: the directories under settings.results_dir
    containers,     \* per job: containers whose ancestor is the job's image
    last,           \* the last handler call: its name, outcome, count read before and after
    nDec,           \* completed decrement_worker_count calls since the Runner was constructed
    nInc,           \* completed increment_worker_count calls since the Runner was constructed
    holding,        \* run_task executions that decremented and have not incremented
    nServe,         \* times serve() constructed a Runner after the first
    proc,           \* the child process of run_task and its stdout pipe
    disk,           \* the result documents under the job's directory
    pc,             \* position of the run_task generator
    stream,         \* the messages run_task has yielded, in order
    results,        \* the value bound to `results` on line 114
    req,            \* the inputs of the last setup, prepare or remove, and the directories before it
    docker,         \* the last stop: what docker ps listed and the commands issued
    xlate           \* a path translation: its inputs and results

vars == <<worker_count, fs, containers, last, nDec, nInc, holding, nServe,
          proc, disk, pc, stream, results, req, docker, xlate>>

svcVars == <<worker_count, fs, containers, last, nDec, nInc, holding, nServe>>
taskVars == <<proc, disk, pc, stream, results>>
auxVars == <<req, docker, xlate>>

----------------------------------------------------------------------------
(* Bounds of the model *)

MaxCreates == 2
MaxContainers == 2
MaxRestarts == 1
MaxLines == 3
MaxContent == 4

(* Runner.__init__(workers_count=5), the value serve() constructs with *)
DefaultWorkers == 5

Jobs == {"j1"}
DatasetTypes == {"upload", "default", "other"}

----------------------------------------------------------------------------
(* The persisted worker count *)

save_worker_count(count) == <<count>>

load_worker_count(file) == IF file = <<>> THEN 0 ELSE file[1]

decrement_stale(file) == save_worker_count(load_worker_count(file))

decrement_worker_count(file) == save_worker_count(load_worker_count(file) - 1)

increment_worker_count(file) == save_worker_count(load_worker_count(file) + 1)

\* TRUE when check_worker_count returns, FALSE when it raises RunnerException
check_worker_count(file) == ~(load_worker_count(file) < 0)

status_nonnegative(file) ==
    IF load_worker_count(file) >= 0 THEN "available" ELSE "occupied"

_get_server_status(file) ==
    IF load_worker_count(file) > 0 THEN "available" ELSE "occupied"

----------------------------------------------------------------------------
(* Python's binding of a call to a signature: TRUE when the call binds,    *)
(* FALSE when it raises TypeError.  sig = [params, required]; call =       *)
(* [positional, keywords].                                                 *)

CallBinds(sig, call) ==
    LET covered == {sig.params[i] : i \in 1..call.positional} IN
    /\ call.positional <= Len(sig.params)
    /\ \A k \in call.keywords :
          /\ \E i \in 1..Len(sig.params) : sig.params[i] = k
          /\ k \notin covered
    /\ sig.required \subseteq (covered \cup call.keywords)

SetupSig ==
    [params |-> <<"job_id", "dataset_name", "model_name", "dataset_branch", "model_branch">>,
     required |-> {"job_id", "dataset_name", "model_name"}]
SetupCall == [positional |-> 5, keywords |-> {}]

PrepareSig ==
    [params |-> <<"job_id", "dataset_name", "model_name", "dataset_type",
                  "results_dir", "dataset_branch", "model_branch">>,
     required |-> {"job_id", "dataset_name", "model_name", "dataset_type"}]
PrepareCall ==
    [positional |-> 0,
     keywords |-> {"job_id", "dataset_name", "model_name", "dataset_type",
                   "dataset_branch", "model_branch", "results_dir"}]

RunSig ==
    [params |-> <<"name", "at", "dataset_dir", "base_dir", "task_id", "user_id",
                  "job_id", "trained_model">>,
     required |-> {"name", "at", "dataset_dir", "base_dir", "task_id", "user_id", "job_id"}]
RunCall ==
    [positional |-> 0,
     keywords |-> {"name", "model_name", "dataset_name", "task_id", "user_id",
                   "job_id", "trained_model"}]

FetchResultsSig == [params |-> <<"at">>, required |-> {"at"}]
FetchResultsCall == [positional |-> 2, keywords |-> {}]

StopSig == [params |-> <<"job_id">>, required |-> {"job_id"}]
StopCall == [positional |-> 1, keywords |-> {}]

RemoveSig ==
    [params |-> <<"job_id", "dataset_name", "model_name">>,
     required |-> {"job_id", "dataset_name", "model_name"}]
RemoveCall == [positional |-> 1, keywords |-> {}]

----------------------------------------------------------------------------
(* Job directories.  A directory is "absent", "empty" or "filled".         *)

NoDirs == [base |-> FALSE, dataset |-> "absent", model |-> "absent", copied |-> FALSE]

Made(d) == IF d = "absent" THEN "empty" ELSE d

\* os.makedirs(dataset_path, exist_ok=True); os.makedirs(model_path, exist_ok=True)
job_get_dirs(f) ==
    [f EXCEPT !.base = TRUE, !.dataset = Made(f.dataset), !.model = Made(f.model)]

\* A remove that deletes only the directories that were there before the call
remove_existing_only(f) ==
    [job_get_dirs(f) EXCEPT !.dataset = IF f.dataset = "absent" THEN @ ELSE "absent",
                            !.model = IF f.model = "absent" THEN @ ELSE "absent"]

\* job_get_dirs, then rm -rf of the dataset and the model directory
remove(f) ==
    [job_get_dirs(f) EXCEPT !.dataset = "absent", !.model = "absent"]

\* A setup whose except clause raises without calling remove
setup_no_cleanup(f, dsOk, mdOk) ==
    LET made == job_get_dirs(f)
        ds == [made EXCEPT !.dataset = "filled"]
    IN  IF ~dsOk THEN [ok |-> FALSE, fs |-> made]
        ELSE IF ~mdOk THEN [ok |-> FALSE, fs |-> ds]
        ELSE [ok |-> TRUE, fs |-> [ds EXCEPT !.model = "filled"]]

\* setup: dsOk, mdOk tell whether the clone of the dataset, of the model, succeeds;
\* the model is cloned only after the dataset was.
setup(f, dsOk, mdOk) ==
    LET made == job_get_dirs(f)
        ds == [made EXCEPT !.dataset = "filled"]
    IN  IF ~dsOk THEN [ok |-> FALSE, fs |-> remove(made)]
        ELSE IF ~mdOk THEN [ok |-> FALSE, fs |-> remove(ds)]
        ELSE [ok |-> TRUE, fs |-> [ds EXCEPT !.model = "filled"]]

\* prepare: dsOk tells whether the copy (upload) or the fetch (default) of the
\* dataset succeeds, mdOk whether the fetch of the model does.
prepare(f, dataset_type, dsOk, mdOk) ==
    LET made == job_get_dirs(f)
        ds == IF dataset_type = "upload" THEN [made EXCEPT !.copied = TRUE]
              ELSE IF dataset_type = "default" THEN [made EXCEPT !.dataset = "filled"]
              ELSE made
        dsStep == dataset_type \in {"upload", "default"}
    IN  IF dsStep /\ ~dsOk THEN [ok |-> FALSE, fs |-> made]
        ELSE IF ~mdOk THEN [ok |-> FALSE, fs |-> ds]
        ELSE [ok |-> TRUE, fs |-> [ds EXCEPT !.model = "filled"]]

----------------------------------------------------------------------------
(* The values the task variables hold while no task is modelled *)

NoProc == [written |-> <<>>, pipe |-> <<>>, closed |-> FALSE, exited |-> FALSE]
NoDisk == [success |-> <<>>, error |-> <<>>]
NoDoc == [task_id |-> "", metrics |-> <<>>, files |-> <<>>, pkg_name |-> ""]
NoResults == [shape |-> "unset", status |-> "", doc |-> NoDoc]

NoReq == [dataset_type |-> "", dsOk |-> TRUE, mdOk |-> TRUE, before |-> NoDirs, prev |-> ""]
NoDocker == [ps_ok |-> TRUE, matching |-> 0, listed |-> <<>>, calls |-> <<>>]
NoSettings == [cog_base_dir |-> <<>>, server_base_dir |-> <<>>, results_dir |-> <<>>]
NoXlate ==
    [fn |-> "", at |-> <<>>, base_dir |-> <<>>, settings |-> NoSettings,
     out |-> <<>>, again |-> <<>>, stage |-> 0]

Call(op, result, before, after) ==
    [op |-> op, result |-> result, before |-> before, after |-> after]

----------------------------------------------------------------------------
(* The servicer *)

Init ==
    /\ worker_count = save_worker_count(DefaultWorkers)
    /\ fs = [j \in Jobs |-> NoDirs]
    /\ containers \in [Jobs -> 0..MaxContainers]
    /\ last = Call("init", "ok", DefaultWorkers, DefaultWorkers)
    /\ nDec = 0
    /\ nInc = 0
    /\ holding = 0
    /\ nServe = 0
    /\ proc = NoProc
    /\ disk = NoDisk
    /\ pc = "idle"
    /\ stream = <<>>
    /\ results = NoResults
    /\ req = NoReq
    /\ docker = NoDocker
    /\ xlate = NoXlate

\* serve(): the service is started again and constructs Runner(runner_dir=...);
\* the requests of the previous process are gone with it.
Serve ==
    /\ nServe < MaxRestarts
    /\ nServe' = nServe + 1
    /\ worker_count' = save_worker_count(DefaultWorkers)
    /\ last' = Call("serve", "ok", load_worker_count(worker_count),
                    load_worker_count(worker_count'))
    /\ nDec' = 0
    /\ nInc' = 0
    /\ holding' = 0
    /\ UNCHANGED <<fs, containers>>
    /\ UNCHANGED taskVars
    /\ req' = NoReq
    /\ docker' = NoDocker
    /\ UNCHANGED xlate

GetRunner ==
    /\ last' = Call("get_runner", _get_server_status(worker_count),
                    load_worker_count(worker_count), load_worker_count(worker_count))
    /\ UNCHANGED <<worker_count, fs, containers, nDec, nInc, holding, nServe>>
    /\ UNCHANGED taskVars
    /\ req' = NoReq
    /\ docker' = NoDocker
    /\ UNCHANGED xlate

\* The stdout of `docker ps -a -q --filter ancestor=<job>` with n containers:
\* one id per line, each line ended by a newline
RECURSIVE ps_stdout(_)
ps_stdout(n) == IF n = 0 THEN <<>> ELSE ps_stdout(n - 1) \o <<ToString(n), "\n">>

\* str.split("\n")
RECURSIVE py_split(_)
py_split(text) ==
    LET nl == {i \in 1..Len(text) : text[i] = "\n"} IN
    IF nl = {} THEN <<text>>
    ELSE LET i == CHOOSE k \in nl : \A m \in nl : k <= m IN
         <<SubSeq(text, 1, i - 1)>> \o py_split(SubSeq(text, i + 1, Len(text)))

\* The ids of n containers, as lines of the listing
Ids(n) == {<<ToString(i)>> : i \in 1..n}

\* A loop that ends at the first command that fails
RECURSIVE stop_calls_abort(_, _)
stop_calls_abort(lines, failing) ==
    IF lines = <<>> THEN <<>>
    ELSE IF Head(lines) = <<>> THEN stop_calls_abort(Tail(lines), failing)
    ELSE IF Head(lines) \in failing
         THEN <<[cmd |-> "docker stop", id |-> Head(lines), ok |-> FALSE]>>
    ELSE <<[cmd |-> "docker stop", id |-> Head(lines), ok |-> TRUE],
           [cmd |-> "docker rm", id |-> Head(lines), ok |-> TRUE]>>
         \o stop_calls_abort(Tail(lines), failing)

\* Lines 267-271: the commands issued for the split lines, empty ones skipped;
\* os.system returns the status of a failing command, which is dropped.
\* failing holds the containers on which the docker commands fail.
RECURSIVE stop_calls(_, _)
stop_calls(lines, failing) ==
    IF lines = <<>> THEN <<>>
    ELSE (IF Head(lines) = <<>> THEN <<>>
          ELSE <<[cmd |-> "docker stop", id |-> Head(lines), ok |-> Head(lines) \notin failing],
                 [cmd |-> "docker rm", id |-> Head(lines), ok |-> Head(lines) \notin failing]>>)
         \o stop_calls(Tail(lines), failing)

\* cog.stop with n matching containers: ps_ok tells whether docker ps returned 0
stop(n, ps_ok, failing) ==
    IF ~ps_ok THEN [ps_ok |-> FALSE, matching |-> n, listed |-> <<>>, calls |-> <<>>]
    ELSE [ps_ok |-> TRUE, matching |-> n,
          listed |-> py_split(ps_stdout(n)),
          calls |-> stop_calls(py_split(ps_stdout(n)), failing)]

\* stop_task: docker ps may fail; otherwise a stop and a rm are issued for each
\* listed container; the containers on which they fail are left. The value
\* of cog.stop is dropped and the response is returned.
StopTask(j) ==
    /\ CallBinds(StopSig, StopCall)
    /\ \E ps_ok \in BOOLEAN, failing \in SUBSET Ids(containers[j]) :
          /\ docker' = stop(containers[j], ps_ok, failing)
          /\ containers' = [containers EXCEPT ![j] =
                               IF ps_ok THEN Cardinality(failing) ELSE @]
    /\ last' = Call("stop_task", "ok", load_worker_count(worker_count),
                    load_worker_count(worker_count))
    /\ req' = NoReq
    /\ UNCHANGED xlate
    /\ UNCHANGED <<worker_count, fs, nDec, nInc, holding, nServe>>
    /\ UNCHANGED taskVars

\* cg.remove(request.job_id) does not bind to remove(job_id, dataset_name, model_name)
RemoveTaskEnvironment(j) ==
    /\ fs' = [fs EXCEPT ![j] = IF CallBinds(RemoveSig, RemoveCall) THEN remove(@) ELSE @]
    /\ last' = Call("remove_task_environment",
                    IF CallBinds(RemoveSig, RemoveCall) THEN "ok" ELSE "TypeError",
                    load_worker_count(worker_count), load_worker_count(worker_count))
    /\ UNCHANGED <<worker_count, containers, nDec, nInc, holding, nServe>>
    /\ UNCHANGED taskVars
    /\ req' = NoReq
    /\ docker' = NoDocker
    /\ UNCHANGED xlate

CreateDenied(j) ==
    /\ ~check_worker_count(worker_count)
    /\ last' = Call("create_task_environment", "AdmissionDenied",
                    load_worker_count(worker_count), load_worker_count(worker_count))
    /\ UNCHANGED <<worker_count, fs, containers, nDec, nInc, holding, nServe>>
    /\ UNCHANGED taskVars
    /\ req' = NoReq
    /\ docker' = NoDocker
    /\ UNCHANGED xlate

\* A create_task_environment that increments before the setup it awaits
CreateSetupFailedCounted(j) ==
    /\ check_worker_count(worker_count)
    /\ CallBinds(SetupSig, SetupCall)
    /\ nInc < MaxCreates
    /\ worker_count' = increment_worker_count(worker_count)
    /\ nInc' = nInc + 1
    /\ \E dsOk, mdOk \in BOOLEAN :
          /\ ~setup(fs[j], dsOk, mdOk).ok
          /\ fs' = [fs EXCEPT ![j] = setup(fs[j], dsOk, mdOk).fs]
          /\ req' = [dataset_type |-> "", dsOk |-> dsOk, mdOk |-> mdOk,
                     before |-> fs[j], prev |-> ""]
    /\ last' = Call("create_task_environment", "SetupFailed",
                    load_worker_count(worker_count), load_worker_count(worker_count'))
    /\ UNCHANGED <<containers, nDec, holding, nServe>>
    /\ UNCHANGED taskVars
    /\ docker' = NoDocker
    /\ UNCHANGED xlate

CreateSetupFailed(j) ==
    /\ check_worker_count(worker_count)
    /\ CallBinds(SetupSig, SetupCall)
    /\ \E dsOk, mdOk \in BOOLEAN :
          /\ ~setup(fs[j], dsOk, mdOk).ok
          /\ fs' = [fs EXCEPT ![j] = setup(fs[j], dsOk, mdOk).fs]
          /\ req' = [dataset_type |-> "", dsOk |-> dsOk, mdOk |-> mdOk,
                     before |-> fs[j], prev |-> ""]
    /\ last' = Call("create_task_environment", "SetupFailed",
                    load_worker_count(worker_count), load_worker_count(worker_count))
    /\ UNCHANGED <<worker_count, containers, nDec, nInc, holding, nServe>>
    /\ UNCHANGED taskVars
    /\ docker' = NoDocker
    /\ UNCHANGED xlate

CreateOk(j) ==
    /\ check_worker_count(worker_count)
    /\ CallBinds(SetupSig, SetupCall)
    /\ nInc < MaxCreates
    /\ fs' = [fs EXCEPT ![j] = setup(fs[j], TRUE, TRUE).fs]
    /\ worker_count' = increment_worker_count(worker_count)
    /\ nInc' = nInc + 1
    /\ last' = Call("create_task_environment", "ok",
                    load_worker_count(worker_count), load_worker_count(worker_count'))
    /\ req' = [dataset_type |-> "", dsOk |-> TRUE, mdOk |-> TRUE,
               before |-> fs[j], prev |-> ""]
    /\ UNCHANGED <<containers, nDec, holding, nServe>>
    /\ UNCHANGED taskVars
    /\ docker' = NoDocker
    /\ UNCHANGED xlate

RunDenied(j) ==
    /\ ~check_worker_count(worker_count)
    /\ last' = Call("run_task", "AdmissionDenied",
                    load_worker_count(worker_count), load_worker_count(worker_count))
    /\ UNCHANGED <<worker_count, fs, containers, nDec, nInc, holding, nServe>>
    /\ UNCHANGED taskVars
    /\ req' = NoReq
    /\ docker' = NoDocker
    /\ UNCHANGED xlate

\* Lines 105-108: the check, the decrement, prepare, and the call of cog.run,
\* which does not bind to run's parameters and raises TypeError before any
\* process is started.
RunAdmitted(j) ==
    /\ check_worker_count(worker_count)
    /\ worker_count' = decrement_worker_count(worker_count)
    /\ nDec' = nDec + 1
    /\ holding' = holding + 1
    /\ CallBinds(PrepareSig, PrepareCall)
    /\ \E t \in DatasetTypes, dsOk, mdOk \in BOOLEAN :
          LET p == prepare(fs[j], t, dsOk, mdOk) IN
          /\ fs' = [fs EXCEPT ![j] = p.fs]
          /\ last' = Call("run_task",
                          IF ~p.ok THEN "PrepareFailed"
                          ELSE IF ~CallBinds(RunSig, RunCall) THEN "TypeError"
                          ELSE "launched",
                          load_worker_count(worker_count),
                          load_worker_count(worker_count'))
          /\ req' = [dataset_type |-> t, dsOk |-> dsOk, mdOk |-> mdOk,
                     before |-> fs[j], prev |-> ""]
    /\ UNCHANGED <<containers, nInc, nServe>>
    /\ UNCHANGED taskVars
    /\ docker' = NoDocker
    /\ UNCHANGED xlate

Next ==
    \/ Serve
    \/ GetRunner
    \/ \E j \in Jobs : StopTask(j)
    \/ \E j \in Jobs : RemoveTaskEnvironment(j)
    \/ \E j \in Jobs : CreateDenied(j)
    \/ \E j \in Jobs : CreateSetupFailed(j)
    \/ \E j \in Jobs : CreateOk(j)
    \/ \E j \in Jobs : RunDenied(j)
    \/ \E j \in Jobs : RunAdmitted(j)

Spec == Init /\ [][Next]_vars

----------------------------------------------------------------------------
(* Result documents and their conversion (run_task lines 114-172)          *)

OutputLines == {"a", "b"}

\* File names as character sequences: "m.bin" and "log"
FileNames == {<<"m", ".", "b", "i", "n">>, <<"l", "o", "g">>}

\* File contents: the byte strings of length 0..MaxContent
ContentOf(n) == [i \in 1..n |-> (i * 77) % 256]
Contents == {ContentOf(n) : n \in 0..MaxContent}

\* Base64 text is a sequence of the codes 0..63, and 64 for the padding '='
EncodeGroup(g) ==
    LET n == g[1] * 65536 + (IF Len(g) >= 2 THEN g[2] ELSE 0) * 256
                          + (IF Len(g) = 3 THEN g[3] ELSE 0)
        c1 == n \div 262144
        c2 == (n \div 4096) % 64
        c3 == (n \div 64) % 64
        c4 == n % 64
    IN  IF Len(g) = 3 THEN <<c1, c2, c3, c4>>
        ELSE IF Len(g) = 2 THEN <<c1, c2, c3, 64>>
        ELSE <<c1, c2, 64, 64>>

RECURSIVE b64encode(_)
b64encode(b) ==
    IF b = <<>> THEN <<>>
    ELSE IF Len(b) <= 3 THEN EncodeGroup(b)
    ELSE EncodeGroup(SubSeq(b, 1, 3)) \o b64encode(SubSeq(b, 4, Len(b)))

DecodeGroup(g) ==
    LET v(c) == IF c = 64 THEN 0 ELSE c
        n == v(g[1]) * 262144 + v(g[2]) * 4096 + v(g[3]) * 64 + v(g[4])
        b1 == n \div 65536
        b2 == (n \div 256) % 256
        b3 == n % 256
    IN  IF g[3] = 64 THEN <<b1>>
        ELSE IF g[4] = 64 THEN <<b1, b2>>
        ELSE <<b1, b2, b3>>

\* base64.b64decode of a padded text
RECURSIVE b64decode(_)
b64decode(text) ==
    IF Len(text) < 4 THEN <<>>
    ELSE DecodeGroup(SubSeq(text, 1, 4)) \o b64decode(SubSeq(text, 5, Len(text)))

\* key.split(".")[-1]
extension(key) ==
    LET dots == {i \in 1..Len(key) : key[i] = "."} IN
    IF dots = {} THEN key
    ELSE SubSeq(key, (CHOOSE i \in dots : \A k \in dots : k <= i) + 1, Len(key))

\* str(value) of a metric
py_str(value) == <<"str", value>>

FileLists ==
    {<<>>} \cup {<<[name |-> n, content |-> b64encode(c)]>> : n \in FileNames, c \in Contents}

SuccessDocs ==
    {[task_id |-> "t1", metrics |-> <<[name |-> "acc", value |-> 9]>>,
      files |-> f, pkg_name |-> "p"] : f \in FileLists}

ErrorDocs ==
    {[task_id |-> "t1", metrics |-> <<>>, files |-> f, pkg_name |-> "p"] : f \in FileLists}

Disks ==
    [success : {<<>>} \cup {<<d>> : d \in SuccessDocs},
     error : {<<>>} \cup {<<d>> : d \in ErrorDocs}]

None == [shape |-> "none", status |-> "", doc |-> NoDoc]

\* cog.fetch_results: the parsed success document, else the parsed error
\* document, else None; the document is returned as it is, a dict.
fetch_results(d) ==
    IF d.success # <<>> THEN [shape |-> "dict", status |-> "", doc |-> d.success[1]]
    ELSE IF d.error # <<>> THEN [shape |-> "dict", status |-> "", doc |-> d.error[1]]
    ELSE None

\* The value the unpacking `status, success = results` of run_task expects for
\* the same documents: the pair (status, document).
tagged_results(d) ==
    IF d.success # <<>> THEN [shape |-> "pair", status |-> "success", doc |-> d.success[1]]
    ELSE IF d.error # <<>> THEN [shape |-> "pair", status |-> "error", doc |-> d.error[1]]
    ELSE None

\* file_size=len(value): the length of the text as stored in the document
file_size(value) == Len(value)

BytesContent(entry) ==
    [name |-> entry.name,
     extension |-> extension(entry.name),
     file_size |-> file_size(entry.content),
     buffer |-> b64decode(entry.content)]

Metric(entry) == [name |-> entry.name, metric |-> py_str(entry.value)]

NoTaskResult ==
    [task_id |-> "", status |-> "unset", metrics |-> <<>>, files |-> <<>>, pkg_name |-> ""]

TaskResult(status, doc, withMetrics) ==
    [task_id |-> doc.task_id,
     status |-> status,
     metrics |-> IF withMetrics
                 THEN [i \in 1..Len(doc.metrics) |-> Metric(doc.metrics[i])]
                 ELSE <<>>,
     files |-> [i \in 1..Len(doc.files) |-> BytesContent(doc.files[i])],
     pkg_name |-> doc.pkg_name]

LineMsg(l) == [kind |-> "line", line |-> l, result |-> NoTaskResult]
ResultMsg(r) == [kind |-> "result", line |-> "", result |-> r]

\* Lines 115-172: what the handling of `results` raises and yields.
\* results[0] of a dict looks up the key 0, which no parsed JSON object has.
handle_results(r) ==
    IF r.shape = "none" THEN [raised |-> "", msgs |-> <<>>]
    ELSE IF r.shape = "dict" THEN [raised |-> "KeyError", msgs |-> <<>>]
    ELSE IF r.status = "success"
         THEN [raised |-> "", msgs |-> <<ResultMsg(TaskResult(r.status, r.doc, TRUE))>>]
         ELSE [raised |-> "", msgs |-> <<ResultMsg(TaskResult(r.status, r.doc, FALSE))>>]

----------------------------------------------------------------------------
(* run_task from the launched process on (lines 109-174) *)

Launched ==
    /\ worker_count = decrement_worker_count(save_worker_count(DefaultWorkers))
    /\ fs = [j \in Jobs |-> prepare(NoDirs, "default", TRUE, TRUE).fs]
    /\ containers = [j \in Jobs |-> 0]
    /\ last = Call("run_task", "launched", DefaultWorkers, DefaultWorkers - 1)
    /\ nDec = 1
    /\ nInc = 0
    /\ holding = 1
    /\ nServe = 0
    /\ req = [NoReq EXCEPT !.dataset_type = "default"]
    /\ docker = NoDocker
    /\ xlate = NoXlate

InitTask ==
    /\ Launched
    /\ proc = NoProc
    /\ disk = NoDisk
    /\ pc = "poll"
    /\ stream = <<>>
    /\ results = NoResults

\* The child process: it writes lines to its stdout, may close it, and exits
ChildWrite(l) ==
    /\ ~proc.closed
    /\ Len(proc.written) < MaxLines
    /\ proc' = [proc EXCEPT !.written = Append(@, l), !.pipe = Append(@, l)]
    /\ UNCHANGED <<disk, pc, stream, results>>
    /\ UNCHANGED svcVars
    /\ UNCHANGED auxVars

ChildClose ==
    /\ ~proc.closed
    /\ proc' = [proc EXCEPT !.closed = TRUE]
    /\ UNCHANGED <<disk, pc, stream, results>>
    /\ UNCHANGED svcVars
    /\ UNCHANGED auxVars

ChildExit ==
    /\ ~proc.exited
    /\ proc' = [proc EXCEPT !.closed = TRUE, !.exited = TRUE]
    /\ UNCHANGED <<disk, pc, stream, results>>
    /\ UNCHANGED svcVars
    /\ UNCHANGED auxVars

\* _stream_process: process.poll() is None
_stream_process(p) == ~p.exited

\* Line 109: the loop condition
PollProcess ==
    /\ pc = "poll"
    /\ pc' = IF _stream_process(proc) THEN "read" ELSE "fetch"
    /\ UNCHANGED <<proc, disk, stream, results>>
    /\ UNCHANGED svcVars
    /\ UNCHANGED auxVars

\* Lines 110-111: the next line of process.stdout is yielded
ReadLine ==
    /\ pc = "read"
    /\ proc.pipe # <<>>
    /\ stream' = Append(stream, LineMsg(Head(proc.pipe)))
    /\ proc' = [proc EXCEPT !.pipe = Tail(@)]
    /\ UNCHANGED <<disk, pc, results>>
    /\ UNCHANGED svcVars
    /\ UNCHANGED auxVars

\* Line 110: the iteration over process.stdout ends at end of file, and blocks
\* while the pipe is empty and still open
ReadEOF ==
    /\ pc = "read"
    /\ proc.pipe = <<>>
    /\ proc.closed
    /\ pc' = "sleep"
    /\ UNCHANGED <<proc, disk, stream, results>>
    /\ UNCHANGED svcVars
    /\ UNCHANGED auxVars

\* Line 112
Sleep ==
    /\ pc = "sleep"
    /\ pc' = "poll"
    /\ UNCHANGED <<proc, disk, stream, results>>
    /\ UNCHANGED svcVars
    /\ UNCHANGED auxVars

\* Line 114: cg.fetch_results(request.job_id, request.model.name) passes two
\* arguments to fetch_results(at) and raises TypeError; the generator ends there.
FetchCall ==
    /\ pc = "fetch"
    /\ IF CallBinds(FetchResultsSig, FetchResultsCall)
       THEN /\ results' = fetch_results(disk)
            /\ pc' = "handle"
            /\ UNCHANGED last
       ELSE /\ pc' = "aborted"
            /\ last' = [last EXCEPT !.result = "TypeError"]
            /\ UNCHANGED results
    /\ UNCHANGED <<proc, disk, stream>>
    /\ UNCHANGED <<worker_count, fs, containers, nDec, nInc, holding, nServe>>
    /\ UNCHANGED auxVars

NextTask ==
    \/ \E l \in OutputLines : ChildWrite(l)
    \/ ChildClose
    \/ ChildExit
    \/ PollProcess
    \/ ReadLine
    \/ ReadEOF
    \/ Sleep
    \/ FetchCall

SpecTask == InitTask /\ [][NextTask]_vars

----------------------------------------------------------------------------
(* The result handling of run_task (lines 115-174) on its inputs: for each *)
(* state of the result documents, the value fetch_results returns for it   *)
(* and the (status, document) pair the unpacking expects for it.           *)

WrittenLines == {<<>>} \cup {<<l>> : l \in OutputLines}

\* The loop of lines 109-112 is left when poll() finds the child exited: after
\* a pass that read the pipe to its end (drained), or at the first test, with
\* nothing read of what the child wrote.
InitResult ==
    /\ Launched
    /\ \E w \in WrittenLines, drained \in BOOLEAN :
          /\ proc = [written |-> w, pipe |-> IF drained THEN <<>> ELSE w,
                     closed |-> TRUE, exited |-> TRUE]
          /\ stream = IF drained THEN [i \in 1..Len(w) |-> LineMsg(w[i])] ELSE <<>>
    /\ disk \in Disks
    /\ results \in {fetch_results(disk), tagged_results(disk)}
    /\ pc = "handle"

\* Lines 115-174: the terminal message if one is built, then the increment;
\* an exception ends the generator before the increment.
HandleResults ==
    /\ pc = "handle"
    /\ LET h == handle_results(results) IN
       /\ stream' = stream \o h.msgs
       /\ IF h.raised = ""
          THEN /\ pc' = "done"
               /\ worker_count' = increment_worker_count(worker_count)
               /\ nInc' = nInc + 1
               /\ holding' = holding - 1
               /\ last' = [last EXCEPT !.result = "ok",
                                       !.after = load_worker_count(worker_count')]
          ELSE /\ pc' = "aborted"
               /\ last' = [last EXCEPT !.result = h.raised]
               /\ UNCHANGED <<worker_count, nInc, holding>>
    /\ UNCHANGED <<fs, containers, nDec, nServe>>
    /\ UNCHANGED <<proc, disk, results>>
    /\ UNCHANGED auxVars

NextResult == HandleResults

SpecResult == InitResult /\ [][NextResult]_vars

----------------------------------------------------------------------------
(* Claims about streaming and harvesting *)

LinesOf(msgs) == SelectSeq(msgs, LAMBDA m : m.kind = "line")
TerminalsOf(msgs) == SelectSeq(msgs, LAMBDA m : m.kind = "result")
Ended == pc \in {"done", "aborted"}

OutcomeStatus ==
    IF TerminalsOf(stream) = <<>> THEN "none" ELSE TerminalsOf(stream)[1].result.status

----------------------------------------------------------------------------
(* Claims about admission, checked under Spec *)

\* C1: an Acquire (the check and decrement at the start of run_task) made when
\* the persisted count is <= 0 is rejected and leaves the count unchanged; made
\* when the count is > 0 it is admitted and decrements the count by exactly 1.
AcquireContract ==
    last.op = "run_task" =>
        /\ last.before <= 0 =>
              (last.result = "AdmissionDenied" /\ last.after = last.before)
        /\ last.before > 0 =>
              (last.result # "AdmissionDenied" /\ last.after = last.before - 1)

\* C2: the persisted slot count is >= 0 in every reachable state.
CountNeverNegative == load_worker_count(worker_count) >= 0

\* C3: the run_task executions that acquired a slot and have not released it
\* never outnumber the worker capacity the Runner was constructed with.
HoldersWithinCapacity == holding <= DefaultWorkers

CountSurvivesRestart == last.op = "serve" => last.after = last.before

\* C6: get_runner answers "available" exactly when the persisted count is > 0,
\* and "occupied" otherwise.
StatusReflectsCount ==
    last.op = "get_runner" =>
        /\ last.result = "available" <=> last.before > 0
        /\ last.result = "occupied" <=> last.before <= 0

StatusReflectsCountWitness ==
    /\ last.op = "get_runner"
    /\ last.before = 0
    /\ last.result = "occupied"

StatusNegativeCountReached ==
    /\ last.op = "get_runner"
    /\ last.before < 0
    /\ last.result = "occupied"

----------------------------------------------------------------------------
(* Path translation (cog.py lines 318-340).  A path is a sequence of       *)
(* characters; the roots come from the settings and from the caller.       *)

MaxPath == 3
MaxRoot == 2

PathChars == {"/", "a"}
SeqsUpTo(n) == UNION {[1..k -> PathChars] : k \in 0..n}
Paths == SeqsUpTo(MaxPath)
Roots == SeqsUpTo(MaxRoot) \ {<<>>}

\* str.replace(old, new): every non-overlapping occurrence of old, from the
\* left, is replaced by new; an empty old matches before every character
\* and at the end.
RECURSIVE py_replace(_, _, _)
py_replace(s, old, new) ==
    IF old = <<>>
    THEN new \o (IF s = <<>> THEN <<>> ELSE <<s[1]>> \o py_replace(Tail(s), old, new))
    ELSE IF Len(s) < Len(old) THEN s
    ELSE IF SubSeq(s, 1, Len(old)) = old
         THEN new \o py_replace(SubSeq(s, Len(old) + 1, Len(s)), old, new)
         ELSE <<s[1]>> \o py_replace(Tail(s), old, new)

\* at.replace(base_dir, settings.cog_base_dir)
replace_source_with_destination(at, base_dir, settings) ==
    py_replace(at, base_dir, settings.cog_base_dir)

\* base_dir.replace(settings.server_base_dir, settings.results_dir)
change2_local_dir(base_dir, settings) ==
    py_replace(base_dir, settings.server_base_dir, settings.results_dir)

TranslateFns == {"replace_source_with_destination", "change2_local_dir"}

\* The translation x names, applied to path
translate(x, path) ==
    IF x.fn = "replace_source_with_destination"
    THEN replace_source_with_destination(path, x.base_dir, x.settings)
    ELSE change2_local_dir(path, x.settings)

\* The root x's translation replaces, and the root it puts in its place
HostRoot(x) ==
    IF x.fn = "replace_source_with_destination" THEN x.base_dir
    ELSE x.settings.server_base_dir

ContextRoot(x) ==
    IF x.fn = "replace_source_with_destination" THEN x.settings.cog_base_dir
    ELSE x.settings.results_dir

Idle ==
    /\ worker_count = save_worker_count(DefaultWorkers)
    /\ fs = [j \in Jobs |-> NoDirs]
    /\ containers = [j \in Jobs |-> 0]
    /\ last = Call("init", "ok", DefaultWorkers, DefaultWorkers)
    /\ nDec = 0
    /\ nInc = 0
    /\ holding = 0
    /\ nServe = 0
    /\ proc = NoProc
    /\ disk = NoDisk
    /\ pc = "idle"
    /\ stream = <<>>
    /\ results = NoResults
    /\ req = NoReq
    /\ docker = NoDocker

InitPath ==
    /\ Idle
    /\ \E fn \in TranslateFns, at \in Paths, old \in Roots, new \in Roots :
          xlate = [fn |-> fn, at |-> at,
                   base_dir |-> IF fn = "replace_source_with_destination" THEN old ELSE <<>>,
                   settings |-> IF fn = "replace_source_with_destination"
                                THEN [NoSettings EXCEPT !.cog_base_dir = new]
                                ELSE [NoSettings EXCEPT !.server_base_dir = old,
                                                        !.results_dir = new],
                   out |-> <<>>, again |-> <<>>, stage |-> 0]

\* The path is translated
Translate ==
    /\ xlate.stage = 0
    /\ xlate' = [xlate EXCEPT !.out = translate(xlate, xlate.at), !.stage = 1]
    /\ UNCHANGED <<req, docker>>
    /\ UNCHANGED svcVars
    /\ UNCHANGED taskVars

\* The translated path is translated again
TranslateAgain ==
    /\ xlate.stage = 1
    /\ xlate' = [xlate EXCEPT !.again = translate(xlate, xlate.out), !.stage = 2]
    /\ UNCHANGED <<req, docker>>
    /\ UNCHANGED svcVars
    /\ UNCHANGED taskVars

NextPath == Translate \/ TranslateAgain

SpecPath == InitPath /\ [][NextPath]_vars

IsPrefix(r, path) == Len(r) <= Len(path) /\ SubSeq(path, 1, Len(r)) = r

\* C11: translating a translated path returns it unchanged, for every path
\* and every pair of roots, also when the new root contains the old one.
TranslateIdempotent == xlate.stage = 2 => xlate.again = xlate.out

\* C12: the translation replaces the host root only as the leading prefix of
\* the path and only once, and leaves a path that does not start with the host
\* root unchanged.
TranslatePrefixOnce ==
    xlate.stage >= 1 =>
        xlate.out =
            IF IsPrefix(HostRoot(xlate), xlate.at)
            THEN ContextRoot(xlate)
                     \o SubSeq(xlate.at, Len(HostRoot(xlate)) + 1, Len(xlate.at))
            ELSE xlate.at

----------------------------------------------------------------------------
(* Claims about the job directories and the containers *)

\* C13: when the clone of the dataset or of the model fails during setup, the
\* error is surfaced to the caller and the job's dataset and model directories
\* are gone by then, also when the dataset clone succeeded and only the model
\* clone failed.
FailedSetupLeavesNoContent ==
    \A j \in Jobs :
        /\ (last.op = "create_task_environment" /\ (~req.dsOk \/ ~req.mdOk))
              => last.result = "SetupFailed"
        /\ (last.op = "create_task_environment" /\ last.result = "SetupFailed")
              => /\ fs[j].dataset = "absent"
                 /\ fs[j].model = "absent"
                 /\ last.after = last.before

FailedSetupLeavesNoContentWitness ==
    /\ last.op = "create_task_environment"
    /\ last.result = "SetupFailed"
    /\ req.dsOk
    /\ ~req.mdOk

----------------------------------------------------------------------------
(* The functions of cog.py called directly, with the arguments their
   signatures take: setup, prepare and remove on the directories of a job.
   req.before holds the directories before the call, req.prev the call before. *)

InitCog ==
    /\ Idle
    /\ xlate = NoXlate

CogSetup(j) ==
    /\ \E dsOk, mdOk \in BOOLEAN :
          LET r == setup(fs[j], dsOk, mdOk) IN
          /\ fs' = [fs EXCEPT ![j] = r.fs]
          /\ last' = Call("cog.setup", IF r.ok THEN "ok" ELSE "raised",
                          load_worker_count(worker_count), load_worker_count(worker_count))
          /\ req' = [dataset_type |-> "", dsOk |-> dsOk, mdOk |-> mdOk,
                     before |-> fs[j], prev |-> last.op]
    /\ UNCHANGED <<worker_count, containers, nDec, nInc, holding, nServe>>
    /\ UNCHANGED taskVars
    /\ UNCHANGED <<docker, xlate>>

CogPrepare(j) ==
    /\ \E t \in DatasetTypes, dsOk, mdOk \in BOOLEAN :
          LET r == prepare(fs[j], t, dsOk, mdOk) IN
          /\ fs' = [fs EXCEPT ![j] = r.fs]
          /\ last' = Call("cog.prepare", IF r.ok THEN "ok" ELSE "raised",
                          load_worker_count(worker_count), load_worker_count(worker_count))
          /\ req' = [dataset_type |-> t, dsOk |-> dsOk, mdOk |-> mdOk,
                     before |-> fs[j], prev |-> last.op]
    /\ UNCHANGED <<worker_count, containers, nDec, nInc, holding, nServe>>
    /\ UNCHANGED taskVars
    /\ UNCHANGED <<docker, xlate>>

\* remove returns True on every path
CogRemove(j) ==
    /\ fs' = [fs EXCEPT ![j] = remove(fs[j])]
    /\ last' = Call("cog.remove", "ok",
                    load_worker_count(worker_count), load_worker_count(worker_count))
    /\ req' = [NoReq EXCEPT !.before = fs[j], !.prev = last.op]
    /\ UNCHANGED <<worker_count, containers, nDec, nInc, holding, nServe>>
    /\ UNCHANGED taskVars
    /\ UNCHANGED <<docker, xlate>>

NextCog ==
    \/ \E j \in Jobs : CogSetup(j)
    \/ \E j \in Jobs : CogPrepare(j)
    \/ \E j \in Jobs : CogRemove(j)

SpecCog == InitCog /\ [][NextCog]_vars

RemoveLeavesNoDirectory ==
    \A j \in Jobs :
        last.op = "cog.remove" =>
            /\ ~fs[j].base
            /\ fs[j].dataset = "absent"
            /\ fs[j].model = "absent"

\* C16: stop_task answers ok; with no matching container it issues no stop or
\* rm command; when docker ps lists the containers, a stop and a rm are issued
\* for every one of them, also for those that come after a failed command.
StopAttemptsEveryContainer ==
    last.op = "stop_task" =>
        /\ last.result = "ok"
        /\ docker.matching = 0 => docker.calls = <<>>
        /\ ~docker.ps_ok => docker.calls = <<>>
        /\ docker.ps_ok =>
              /\ Len(docker.calls) = 2 * docker.matching
              /\ \A id \in Ids(docker.matching) :
                    \E i \in 1..Len(docker.calls) - 1 :
                        /\ docker.calls[i].cmd = "docker stop"
                        /\ docker.calls[i].id = id
                        /\ docker.calls[i + 1].cmd = "docker rm"
                        /\ docker.calls[i + 1].id = id

StopAttemptsEveryContainerWitness ==
    /\ last.op = "stop_task"
    /\ docker.ps_ok
    /\ docker.matching >= 2
    /\ ~docker.calls[1].ok
    /\ Len(docker.calls) = 4

----------------------------------------------------------------------------
(* Claims about the slot held by run_task *)

\* The states in which the loop of run_task is left are those InitResult draws
LoopLeftDrainedOrUnread ==
    pc \in {"fetch", "aborted"} =>
        /\ proc.exited
        /\ \/ proc.pipe = <<>> /\ stream = [i \in 1..Len(proc.written) |-> LineMsg(proc.written[i])]
           \/ proc.pipe = proc.written /\ stream = <<>>

PreparePopulatesByType ==
    \A j \in Jobs :
        last.op = "cog.prepare" =>
            /\ last.result = "ok" =>
                  /\ fs[j].model = "filled"
                  /\ req.dataset_type \in {"upload", "default"} => fs[j].dataset = "filled"
            /\ (req.dataset_type \in {"upload", "default"} /\ ~req.dsOk) => last.result = "raised"
            /\ ~req.mdOk => last.result = "raised"
            /\ last.result = "raised" =>
                  /\ fs[j].base
                  /\ fs[j].dataset # "absent"
                  /\ fs[j].model # "absent"
                  /\ req.before.dataset = "filled" => fs[j].dataset = "filled"
                  /\ req.before.model = "filled" => fs[j].model = "filled"

\* C19: every run_task that decremented the count has incremented it exactly
\* once when the request ends, on every exit path: once the request has ended,
\* also by a failure of prepare or of the launch, the count is back at its
\* value before the request and the request holds no slot.
EveryExitReleases ==
    (last.op = "run_task" /\ last.result \in {"PrepareFailed", "TypeError"}) =>
        /\ last.after = last.before
        /\ holding = 0

\* C20: the persisted count never exceeds the worker capacity the Runner was
\* constructed with, and the count plus the number of run_task requests that
\* hold a slot equals that capacity.
CountWithinCapacity ==
    /\ load_worker_count(worker_count) <= DefaultWorkers
    /\ load_worker_count(worker_count) + holding = DefaultWorkers

\* The operations that take and release no slot
FrameOps == {"get_runner", "stop_task", "remove_task_environment"}

\* C21: get_runner, stop_task and remove_task_environment never change the
\* persisted count, and a create_task_environment that is denied admission or
\* whose setup fails leaves it unchanged too: every step of one of these
\* leaves the count file and the numbers of decrements, increments and
\* holders as they were.
LifecycleLeavesCount ==
    [][(\/ last'.op \in FrameOps
        \/ /\ last'.op = "create_task_environment"
           /\ last'.result \in {"AdmissionDenied", "SetupFailed"})
       => /\ worker_count' = worker_count
          /\ nDec' = nDec
          /\ nInc' = nInc
          /\ holding' = holding]_vars

LifecycleLeavesCountWitness ==
    /\ last.op = "create_task_environment"
    /\ last.result = "SetupFailed"
    /\ nDec > 0
    /\ load_worker_count(worker_count) = DefaultWorkers - nDec + nInc

====
